---------------------------- MODULE Spec2Model ----------------------------
(***************************************************************************)
(* A model of GeneratedLatticeImage.__init__                               *)
(* (src/optical_lattice/lattice_generation.py, lines 23-122): the          *)
(* synthesis of a camera image of atoms on an N x N optical lattice.       *)
(*                                                                         *)
(* The constructor is one sequential computation.  It is cut at the calls  *)
(* of numpy's random generator, whose outcomes are the only inputs besides *)
(* the parameters:                                                         *)
(*   PlaceAtoms       lines 59-83   (np.random.choice, replace=False)      *)
(*   SampleAtom       lines 88-94   (one iteration of the per-atom loop)   *)
(*   DarkCounts       lines 97-105  (np.random.poisson, np.random.choice)  *)
(*   RasterizeEvents  lines 109-112                                        *)
(*   RescaleGrid      lines 115-116                                        *)
(*   StoreResults     lines 119-122                                        *)
(*                                                                         *)
(* Conventions.                                                            *)
(*  - The file parses only under Python 2 (line 100 is indented by a tab   *)
(*    among lines indented by spaces), so M/2 with an integer M is the     *)
(*    floor quotient, written M \div 2 here.                               *)
(*  - A Gaussian sample is a real number.  It is modelled in half pixels   *)
(*    (the sample's displacement from its mean is drawn from               *)
(*    JitterHalves), which is the coarsest grid on which np.rint's         *)
(*    round-half-to-even acts differently from truncation.                 *)
(*  - pixel_grid holds event counts until line 115.  The rescaled value    *)
(*    count*(5000/max) + 600 is kept as the exact fraction num/den; the    *)
(*    IEEE result of 0 * (5000/0.0) + 600, a NaN, is the value NaN.        *)
(*    Rounding errors of the double arithmetic are not modelled.           *)
(***************************************************************************)
EXTENDS Integers, Sequences, FiniteSets

(***************************************************************************)
(* Bounds of the model.                                                    *)
(***************************************************************************)
\* N_photon ranges over 0..MaxPhoton
MaxPhoton == 2
\* Len(x_loc) never exceeds MaxEvents: N_atom*N_photon <= MaxEvents, and the
\* Poisson draw is cut at MaxEvents - N_atom*N_photon
MaxEvents == 2

\* values of N, M, CCD_resolution, lattice_origin, std, N_backg, lam_backg
LatticeSizes == {1, 2}
SitePixels == {1, 2}
Resolutions == {3}
Origins == {<<0, 0>>, <<1, -1>>}
Stds == {0, 1}
BackgroundSamples == {0, 1}
BackgroundRates == {-1, 1}
\* displacement of a Gaussian sample from its mean, in half pixels
JitterHalves == {-2, -1, 0, 1, 2}

\* The scenario of the specification's section 8: one atom, one photon, no
\* jitter, no background, a 16 x 16 camera (lam_backg keeps its default).
Scenario ==
    [N |-> 2, M |-> 4, N_atom |-> 1, N_photon |-> 1, CCD_resolution |-> 16,
     lattice_origin |-> <<0, 0>>, std |-> 0, N_backg |-> 0, lam_backg |-> 200]

VARIABLES
    N, M, N_atom, N_photon, CCD_resolution, lattice_origin, std, N_backg,
    lam_backg,              \* the arguments of __init__
    pc,                     \* position in __init__
    exception,              \* the exception __init__ raised, "" if none
    rng_calls,              \* number of draws made from np.random so far
    atom_location,          \* line 66
    actual_lattice,         \* lines 68-73, indexed <<row, col>>
    x_index, y_index,       \* lines 80-81, one entry per atom
    i,                      \* loop variable of line 88 (atoms done so far)
    x_loc, y_loc,           \* lines 86-105
    dark_count_tot,         \* line 100
    dark_count_location_x,  \* line 101
    dark_count_location_y,  \* line 102
    pixel_grid,             \* lines 83, 112, 115, 116, indexed <<y, x>>
    grid_max,               \* the value of pixel_grid.max() at line 115
    self                    \* the attributes of the object

params == <<N, M, N_atom, N_photon, CCD_resolution, lattice_origin, std,
            N_backg, lam_backg>>
locals == <<atom_location, actual_lattice, x_index, y_index, i, x_loc, y_loc,
            dark_count_tot, dark_count_location_x, dark_count_location_y,
            pixel_grid, grid_max>>
vars == <<params, pc, exception, rng_calls, locals, self>>

(***************************************************************************)
(* Pure helpers.                                                           *)
(***************************************************************************)
\* np.arange(n)
Arange(n) == 0 .. (n - 1)

\* np.random.choice(np.arange(n), k, replace=True): any k values
ChoiceWithReplacement(n, k) == [1..k -> Arange(n)]

\* [mutant of AtomLocations] the sites drawn with replacement
AtomLocationsRepeating(n, k) == [1..k -> Arange(n)]

\* np.random.choice(np.arange(n), k, replace=False): k distinct values, in
\* the order drawn
AtomLocations(n, k) ==
    {s \in [1..k -> Arange(n)] :
        \A a, b \in 1..k : a # b => s[a] # s[b]}

\* np.unravel_index(idx, (n, n)): <<idx // n, idx % n>>
Unravel(idx, n) == <<idx \div n, idx % n>>

\* [mutant of MarkLattice] the ground truth written as actual_lattice[x,y]
MarkLatticeTransposed(locs, n) ==
    [c \in Arange(n) \X Arange(n) |->
        IF \E k \in 1..Len(locs) :
              c = <<locs[k] \div n, locs[k] % n>>
        THEN 1 ELSE 0]

\* lines 68-73: zeros((N,N)), then actual_lattice[y,x] = 1 with x the first
\* and y the second component of each unravelled index
MarkLattice(locs, n) ==
    [c \in Arange(n) \X Arange(n) |->
        IF \E k \in 1..Len(locs) :
              c = <<Unravel(locs[k], n)[2], Unravel(locs[k], n)[1]>>
        THEN 1 ELSE 0]

\* lines 77-80: x_index = first*M + M/2
XIndex(idx, n, m) == Unravel(idx, n)[1] * m + (m \div 2)

\* lines 77-81: y_index = N*M - (second*M + M/2)
YIndex(idx, n, m) == n * m - (Unravel(idx, n)[2] * m + (m \div 2))

\* np.rint of a value given in half pixels: to the nearest integer, a tie
\* to the even neighbour
Rint(h) ==
    IF h % 2 = 0 THEN h \div 2
    ELSE LET lo == (h - 1) \div 2
         IN  IF lo % 2 = 0 THEN lo ELSE lo + 1

\* line 89: the displacements multivariate_normal can draw for one photon
\* with covariance [[std,0],[0,std]]: none when std = 0
Jitter(s) == IF s = 0 THEN {<<0, 0>>} ELSE JitterHalves \X JitterHalves

\* lines 89-92: the pixel of a sample at mean + d/2, shifted by the origin
PhotonPixel(mean, d, origin) == Rint(2 * mean + d) + origin

\* [mutant of Concatenate] the second array put first
ConcatenateReversed(a, b) == b \o a

\* np.concatenate((a, b))
Concatenate(a, b) == a \o b

\* line 100: the totals np.random.poisson(mean) can return (cut at cap)
Poisson(mean, cap) == IF mean = 0 THEN {0} ELSE 0 .. cap

\* [mutant of InBounds] row 0 and column 0 accepted
InBoundsFromZero(x, y, ccd) == x < ccd /\ y < ccd /\ x >= 0 /\ y >= 0

\* line 110
InBounds(x, y, ccd) == x < ccd /\ y < ccd /\ x > 0 /\ y > 0

\* lines 109-112, from event k on
RECURSIVE Rasterize(_, _, _, _, _)
Rasterize(grid, xs, ys, ccd, k) ==
    IF k > Len(xs) THEN grid
    ELSE Rasterize(IF InBounds(xs[k], ys[k], ccd)
                   THEN [grid EXCEPT ![<<ys[k], xs[k]>>] = @ + 1]
                   ELSE grid,
                   xs, ys, ccd, k + 1)

\* [mutant of GridMax] the minimum taken for the maximum
GridMin(grid) ==
    CHOOSE m \in {grid[c] : c \in DOMAIN grid} :
        \A c \in DOMAIN grid : grid[c] >= m

\* pixel_grid.max()
GridMax(grid) ==
    CHOOSE m \in {grid[c] : c \in DOMAIN grid} :
        \A c \in DOMAIN grid : grid[c] <= m

\* what IEEE arithmetic makes of 0 * (5000/0.0) + 600
NaN == [num |-> 0, den |-> 0]

\* line 115: the value the largest count is scaled to
Ceiling == 5000
\* line 116: the offset added to every cell
Baseline == 600

\* [mutant of Rescale] the baseline left out
RescaleNoBaseline(count, max) ==
    IF max = 0 THEN NaN ELSE [num |-> count * Ceiling, den |-> max]

\* lines 115-116: count * (5000/max) + 600, as a fraction
Rescale(count, max) ==
    IF max = 0 THEN NaN
    ELSE [num |-> count * Ceiling + Baseline * max, den |-> max]

(***************************************************************************)
(* The state after the call is made and before its first statement.        *)
(***************************************************************************)
ParamSpace ==
    {p \in [N : LatticeSizes, M : SitePixels, N_atom : 0..5,
            N_photon : 0..MaxPhoton, CCD_resolution : Resolutions,
            lattice_origin : Origins, std : Stds,
            N_backg : BackgroundSamples, lam_backg : BackgroundRates] :
        /\ p.N_atom <= p.N * p.N + 1
        /\ p.N_atom * p.N_photon <= MaxEvents
        \* a negative rate only where it is used with a non-zero factor,
        \* and after photons without jitter
        /\ p.lam_backg < 0 => (p.N_backg > 0 /\ p.std = 0)
        \* without a photon to draw, M, lattice_origin and std reach no
        \* event: one value of each
        /\ p.N_atom * p.N_photon = 0 =>
              (p.M = 1 /\ p.lattice_origin = <<0, 0>> /\ p.std = 1)}
    \cup {Scenario}

NoAttributes ==
    [N |-> 0, M |-> 0, std |-> 0, lattice_origin |-> <<>>, x_loc |-> <<>>,
     y_loc |-> <<>>, actual_lattice |-> <<>>, pixel_grid |-> <<>>]

Init ==
    /\ \E p \in ParamSpace :
          /\ N = p.N
          /\ M = p.M
          /\ N_atom = p.N_atom
          /\ N_photon = p.N_photon
          /\ CCD_resolution = p.CCD_resolution
          /\ lattice_origin = p.lattice_origin
          /\ std = p.std
          /\ N_backg = p.N_backg
          /\ lam_backg = p.lam_backg
    /\ pc = "start"
    /\ exception = ""
    /\ rng_calls = 0
    /\ atom_location = <<>>
    /\ actual_lattice = <<>>
    /\ x_index = <<>>
    /\ y_index = <<>>
    /\ i = 0
    /\ x_loc = <<>>
    /\ y_loc = <<>>
    /\ dark_count_tot = 0
    /\ dark_count_location_x = <<>>
    /\ dark_count_location_y = <<>>
    /\ pixel_grid = <<>>
    /\ grid_max = 0
    /\ self = NoAttributes

(***************************************************************************)
(* Lines 59-83.  The dimensions are stored, then np.random.choice either   *)
(* raises ValueError (a sample larger than the population) or returns      *)
(* N_atom distinct sites.                                                  *)
(***************************************************************************)
PlaceAtoms ==
    /\ pc = "start"
    /\ self' = [self EXCEPT !.N = N, !.M = M, !.std = std,
                            !.lattice_origin = lattice_origin]
    /\ IF N_atom > N * N
       THEN /\ pc' = "raised"
            /\ exception' = "ValueError"
            /\ UNCHANGED <<rng_calls, locals>>
       ELSE /\ \E locs \in AtomLocations(N * N, N_atom) :
                  /\ atom_location' = locs
                  /\ actual_lattice' = MarkLattice(locs, N)
                  /\ x_index' = [k \in 1..N_atom |-> XIndex(locs[k], N, M)]
                  /\ y_index' = [k \in 1..N_atom |-> YIndex(locs[k], N, M)]
            /\ pixel_grid' =
                  [c \in Arange(CCD_resolution) \X Arange(CCD_resolution)
                     |-> 0]
            /\ rng_calls' = rng_calls + 1
            /\ pc' = "photons"
            /\ UNCHANGED <<exception, i, x_loc, y_loc, dark_count_tot,
                           dark_count_location_x, dark_count_location_y,
                           grid_max>>
    /\ UNCHANGED params

(***************************************************************************)
(* Lines 88-94, one iteration: N_photon samples around atom i (0-based).   *)
(***************************************************************************)
SampleAtom ==
    /\ pc = "photons"
    /\ i < N_atom
    /\ \E d \in [1..N_photon -> Jitter(std)] :
          /\ x_loc' = Concatenate(x_loc,
                 [k \in 1..N_photon |->
                    PhotonPixel(x_index[i + 1], d[k][1], lattice_origin[1])])
          /\ y_loc' = Concatenate(y_loc,
                 [k \in 1..N_photon |->
                    PhotonPixel(y_index[i + 1], d[k][2], lattice_origin[2])])
    /\ i' = i + 1
    /\ rng_calls' = rng_calls + 1
    /\ UNCHANGED <<params, pc, exception, atom_location, actual_lattice,
                   x_index, y_index, dark_count_tot, dark_count_location_x,
                   dark_count_location_y, pixel_grid, grid_max, self>>

(***************************************************************************)
(* Lines 97-105.  np.random.poisson raises ValueError for a negative mean. *)
(***************************************************************************)
DarkCounts ==
    /\ pc = "photons"
    /\ i = N_atom
    /\ IF lam_backg * N_backg < 0
       THEN /\ pc' = "raised"
            /\ exception' = "ValueError"
            /\ UNCHANGED <<rng_calls, x_loc, y_loc, dark_count_tot,
                           dark_count_location_x, dark_count_location_y>>
       ELSE /\ \E tot \in Poisson(lam_backg * N_backg,
                                  MaxEvents - Len(x_loc)) :
               \E dx \in ChoiceWithReplacement(CCD_resolution, tot),
                  dy \in ChoiceWithReplacement(CCD_resolution, tot) :
                  /\ dark_count_tot' = tot
                  /\ dark_count_location_x' = dx
                  /\ dark_count_location_y' = dy
                  /\ x_loc' = Concatenate(x_loc, dx)
                  /\ y_loc' = Concatenate(y_loc, dy)
            /\ rng_calls' = rng_calls + 3
            /\ pc' = "rasterize"
            /\ UNCHANGED exception
    /\ UNCHANGED <<params, atom_location, actual_lattice, x_index, y_index,
                   i, pixel_grid, grid_max, self>>

(***************************************************************************)
(* Lines 109-112.                                                          *)
(***************************************************************************)
RasterizeEvents ==
    /\ pc = "rasterize"
    /\ pixel_grid' = Rasterize(pixel_grid, x_loc, y_loc, CCD_resolution, 1)
    /\ pc' = "rescale"
    /\ UNCHANGED <<params, exception, rng_calls, atom_location,
                   actual_lattice, x_index, y_index, i, x_loc, y_loc,
                   dark_count_tot, dark_count_location_x,
                   dark_count_location_y, grid_max, self>>

(***************************************************************************)
(* Lines 115-116.  A zero maximum raises nothing: numpy's float division   *)
(* by zero gives inf (with a RuntimeWarning), and 0 * inf is NaN.          *)
(***************************************************************************)
RescaleGrid ==
    /\ pc = "rescale"
    /\ grid_max' = GridMax(pixel_grid)
    /\ pixel_grid' = [c \in DOMAIN pixel_grid |->
                         Rescale(pixel_grid[c], GridMax(pixel_grid))]
    /\ pc' = "store"
    /\ UNCHANGED <<params, exception, rng_calls, atom_location,
                   actual_lattice, x_index, y_index, i, x_loc, y_loc,
                   dark_count_tot, dark_count_location_x,
                   dark_count_location_y, self>>

(***************************************************************************)
(* Lines 119-122, and the return of the constructor.                       *)
(***************************************************************************)
StoreResults ==
    /\ pc = "store"
    /\ self' = [self EXCEPT !.x_loc = x_loc, !.y_loc = y_loc,
                            !.actual_lattice = actual_lattice,
                            !.pixel_grid = pixel_grid]
    /\ pc' = "done"
    /\ UNCHANGED <<params, exception, rng_calls, locals>>

Next ==
    \/ PlaceAtoms
    \/ SampleAtom
    \/ DarkCounts
    \/ RasterizeEvents
    \/ RescaleGrid
    \/ StoreResults

Spec == Init /\ [][Next]_vars

(***************************************************************************)
(* Vocabulary of the properties.                                           *)
(***************************************************************************)
\* the constraints section 4.1 of the specification puts on the arguments
ValidParams ==
    /\ N >= 1 /\ M >= 1 /\ N_atom >= 1 /\ N_photon >= 1
    /\ CCD_resolution >= 1 /\ N_backg >= 1
    /\ N_atom <= N * N
    /\ std > 0 /\ lam_backg > 0

\* the atoms have been placed (line 66 returned)
Placed == pc # "start" /\ N_atom <= N * N

\* lines 100-105 have run
Collected == pc \in {"rasterize", "rescale", "store", "done"}

\* the number of signal events
SignalCount == N_atom * N_photon

\* column and row of the ground-truth cell of the k-th atom
ColOf(k) == atom_location[k] \div N
RowOf(k) == atom_location[k] % N

\* the emission centre of the k-th atom, in camera pixels
CentreX(k) == x_index[k] + lattice_origin[1]
CentreY(k) == y_index[k] + lattice_origin[2]

\* event k lies strictly inside the pixel grid
Inside(k) ==
    /\ 0 < x_loc[k] /\ x_loc[k] < CCD_resolution
    /\ 0 < y_loc[k] /\ y_loc[k] < CCD_resolution

\* the number of events at pixel (x, y)
EventsAt(x, y) ==
    Cardinality({k \in 1..Len(x_loc) : x_loc[k] = x /\ y_loc[k] = y})

\* a rescaled cell compared with an integer
IsNumber(v) == v.den > 0
AtLeast(v, n) == v.den > 0 /\ v.num >= n * v.den
Equals(v, n) == v.den > 0 /\ v.num = n * v.den

IsScenario ==
    /\ N = Scenario.N /\ M = Scenario.M /\ N_atom = Scenario.N_atom
    /\ N_photon = Scenario.N_photon
    /\ CCD_resolution = Scenario.CCD_resolution
    /\ lattice_origin = Scenario.lattice_origin /\ std = Scenario.std
    /\ N_backg = Scenario.N_backg

C2_CoordinateLengths ==
    /\ pc = "photons" =>
          /\ Len(x_loc) = i * N_photon
          /\ Len(y_loc) = i * N_photon
    /\ Collected =>
          /\ Len(x_loc) = SignalCount + dark_count_tot
          /\ Len(y_loc) = Len(x_loc)
          /\ \A a \in 1..N_atom : \A q \in 1..N_photon :
                /\ x_loc[(a - 1) * N_photon + q] - CentreX(a) \in {-1, 0, 1}
                /\ y_loc[(a - 1) * N_photon + q] - CentreY(a) \in {-1, 0, 1}
          /\ \A k \in 1..dark_count_tot :
                /\ x_loc[SignalCount + k] = dark_count_location_x[k]
                /\ y_loc[SignalCount + k] = dark_count_location_y[k]
    /\ pc = "done" =>
          /\ self.x_loc = x_loc
          /\ self.y_loc = y_loc

\* a signal event and a background event, one of them outside the grid
C2_Witness ==
    /\ pc = "done"
    /\ SignalCount >= 1 /\ dark_count_tot >= 1
    /\ Len(self.x_loc) = SignalCount + dark_count_tot
    /\ \E k \in 1..Len(x_loc) : ~Inside(k)

(***************************************************************************)
(* C3.  Every cell of a returned pixel grid is a number >= 600 and the     *)
(* largest is exactly 5600 (stated for the calls with valid arguments,     *)
(* which cannot be told to fail as invalid).                               *)
(***************************************************************************)
C3_ReturnedGridRange ==
    (ValidParams /\ pc = "done") =>
       /\ \A c \in DOMAIN self.pixel_grid : AtLeast(self.pixel_grid[c], 600)
       /\ \E c \in DOMAIN self.pixel_grid : Equals(self.pixel_grid[c], 5600)
       /\ \A c \in DOMAIN self.pixel_grid :
             self.pixel_grid[c].num <= 5600 * self.pixel_grid[c].den

(***************************************************************************)
(* C4.  Before rescaling, the cell grid[y][x] with 0 < x, y <              *)
(* CCD_resolution holds the number of events at (x, y), row 0 and column 0 *)
(* hold 0, so an event with a coordinate that is 0, negative or >=         *)
(* CCD_resolution adds nothing; every event is still in x_loc and y_loc.   *)
(***************************************************************************)
C4_RasterizationCounts ==
    pc = "rescale" =>
       /\ \A x, y \in Arange(CCD_resolution) :
             pixel_grid[<<y, x>>] =
                IF x > 0 /\ y > 0 THEN EventsAt(x, y) ELSE 0
       /\ Len(x_loc) = SignalCount + dark_count_tot
       /\ Len(y_loc) = SignalCount + dark_count_tot

\* an event on column 0 of a valid row, an event off the grid, an event
\* rasterized
C4_Witness ==
    /\ pc = "rescale"
    /\ \E k \in 1..Len(x_loc) :
          x_loc[k] = 0 /\ y_loc[k] \in 1..(CCD_resolution - 1)
    /\ \E k \in 1..Len(x_loc) : Inside(k) /\ pixel_grid[<<y_loc[k], x_loc[k]>>] = 1

(***************************************************************************)
(* C5.  A call whose arguments break a constraint of section 4.1 fails     *)
(* before any random draw and stores no result.                            *)
(***************************************************************************)
C5_InvalidFailsFast ==
    ~ValidParams =>
       /\ pc \in {"start", "raised"}
       /\ rng_calls = 0
       /\ self.x_loc = <<>> /\ self.pixel_grid = <<>>

(***************************************************************************)
(* C6.  A call whose grid maximum before rescaling is 0 does not return:   *)
(* it stores no pixel grid, and no cell of a stored grid is the result of  *)
(* the division by zero.                                                   *)
(***************************************************************************)
C6_DegenerateImageFails ==
    pc = "done" =>
       /\ grid_max # 0
       /\ \A c \in DOMAIN self.pixel_grid : self.pixel_grid[c] # NaN

(***************************************************************************)
(* C7, as stated.  Once rasterized, the grid maximum before rescaling is   *)
(* 0 only if N_atom = 0 and dark_count_tot = 0: with at least one event    *)
(* the maximum is >= 1 (stated for the calls with valid arguments).        *)
(***************************************************************************)
C7_ZeroMaxOnlyWithoutEvents ==
    (ValidParams /\ pc \in {"store", "done"}) =>
       /\ grid_max = 0 => (N_atom = 0 /\ dark_count_tot = 0)
       /\ SignalCount + dark_count_tot >= 1 => grid_max >= 1

(***************************************************************************)
(* C7, amended.  The grid maximum before rescaling is 0 exactly when no    *)
(* event lies strictly inside the grid (0 < x, y < CCD_resolution): that   *)
(* is so whenever there is no event at all, and with one event strictly    *)
(* inside the maximum is >= 1.                                             *)
(***************************************************************************)
C7_ZeroMaxIffNothingInside ==
    pc \in {"store", "done"} =>
       /\ grid_max = 0 <=> ~(\E k \in 1..Len(x_loc) : Inside(k))
       /\ SignalCount + dark_count_tot = 0 => grid_max = 0
       /\ (\E k \in 1..Len(x_loc) : Inside(k)) => grid_max >= 1

\* a signal event and a background event, none inside the grid
C7_Witness ==
    /\ pc = "done"
    /\ N_atom >= 1 /\ N_photon >= 1 /\ dark_count_tot >= 1
    /\ grid_max = 0

C10_SingleAtomScenario ==
    IsScenario =>
       /\ pc # "raised"
       /\ pc = "done" =>
             LET site == atom_location[1]
                 cx == (site \div 2) * 4 + 2
                 cy == 8 - ((site % 2) * 4 + 2)
             IN  /\ self.x_loc = <<cx>>
                 /\ self.y_loc = <<cy>>
                 /\ dark_count_tot = 0
                 /\ DOMAIN self.pixel_grid = (0..15) \X (0..15)
                 /\ \A c \in DOMAIN self.pixel_grid :
                       IF c = <<cy, cx>>
                       THEN Equals(self.pixel_grid[c], 5600)
                       ELSE Equals(self.pixel_grid[c], 600)

\* the scenario finished with the atom on the last site
C10_Witness ==
    /\ IsScenario
    /\ pc = "done"
    /\ atom_location = <<3>>
    /\ Cardinality({c \in DOMAIN self.pixel_grid :
                       Equals(self.pixel_grid[c], 5600)}) = 1

=============================================================================
